---- MODULE Spec2Model ----
(***************************************************************************)
(* Model of the resume layout analyzer: the header extractor               *)
(* (src/header_extractor.py) and the geometric layout engine               *)
(* (src/layout_engine.py).                                                 *)
(*                                                                         *)
(* Text is a sequence of one-character strings, so that normalisation,     *)
(* case tests and keyword matching are computed as the code computes them. *)
(* Font sizes are integers in hundredths of a point.  Block coordinates    *)
(* are integers; means are kept as (sum, count) and compared by            *)
(* cross-multiplication, so no precision is lost.                          *)
(***************************************************************************)
EXTENDS Integers, Sequences, FiniteSets, TLC

(***************************************************************************)
(* Characters and strings (Python str operations used by the code)         *)
(***************************************************************************)
UpperChars == <<"A","B","C","D","E","F","G","H","I","J","K","L","M","N","O","P","Q","R","S","T","U","V","W","X","Y","Z">>

LowerChars == <<"a","b","c","d","e","f","g","h","i","j","k","l","m","n","o","p","q","r","s","t","u","v","w","x","y","z">>

DigitChars == {"0","1","2","3","4","5","6","7","8","9"}

UpperSet == {UpperChars[i] : i \in 1..Len(UpperChars)}

LowerSet == {LowerChars[i] : i \in 1..Len(LowerChars)}

\* str.lower() on one character
ToLower(c) ==
    IF c \in UpperSet
    THEN LowerChars[CHOOSE i \in 1..Len(UpperChars) : UpperChars[i] = c]
    ELSE c

\* str.lower()
StrLower(s) == [i \in 1..Len(s) |-> ToLower(s[i])]

\* the regex class \w
IsWordChar(c) == c \in UpperSet \/ c \in LowerSet \/ c \in DigitChars \/ c = "_"

\* the regex class \s, and what str.strip() and str.split() take for
\* whitespace (the model's alphabet holds the space and the newline)
IsSpace(c) == c \in {" ", "\n"}

\* re.sub(r'[^\w\s]', '', text)
RemovePunct(s) == SelectSeq(s, LAMBDA c : IsWordChar(c) \/ IsSpace(c))

RECURSIVE LStrip(_)
LStrip(s) == IF s # <<>> /\ IsSpace(Head(s)) THEN LStrip(Tail(s)) ELSE s

RECURSIVE RStrip(_)
RStrip(s) ==
    IF s # <<>> /\ IsSpace(s[Len(s)]) THEN RStrip(SubSeq(s, 1, Len(s) - 1)) ELSE s

\* str.strip()
Strip(s) == RStrip(LStrip(s))

\* str.replace(" ", "")
RemoveSpaces(s) == SelectSeq(s, LAMBDA c : c # " ")

\* str.isupper(): at least one cased character, and no lowercase one
IsUpperStr(s) ==
    /\ \E i \in 1..Len(s) : s[i] \in UpperSet
    /\ \A i \in 1..Len(s) : s[i] \notin LowerSet

\* len(s.split()): the number of maximal runs of non-whitespace
WordCount(s) ==
    Cardinality({i \in 1..Len(s) :
        /\ ~IsSpace(s[i])
        /\ (i = 1 \/ IsSpace(s[i - 1]))})

\* h in s, for strings
Contains(h, s) ==
    \E k \in 0..(Len(s) - Len(h)) : SubSeq(s, k + 1, k + Len(h)) = h

\* HeaderExtractor._clean_text
clean_text(text) == Strip(StrLower(RemovePunct(text)))

\* the bullet test of _get_lines_with_style; the model's alphabet holds the
\* two ASCII members of the character class, "-" and "*"
BulletChars == {"-", "*"}

IsBulletText(text) == text # <<>> /\ Head(text) \in BulletChars

\* HeaderExtractor.HEADER_PATTERNS
HEADER_PATTERNS == <<
    <<"a","b","o","u","t"," ","m","e">>,  \* about me
    <<"a","c","a","d","e","m","i","c"," ","h","i","s","t","o","r","y">>,  \* academic history
    <<"a","c","h","i","e","v","e","m","e","n","t","s">>,  \* achievements
    <<"a","f","f","i","l","i","a","t","i","o","n","s">>,  \* affiliations
    <<"a","w","a","r","d","s">>,  \* awards
    <<"c","a","r","e","e","r"," ","o","b","j","e","c","t","i","v","e">>,  \* career objective
    <<"c","e","r","t","i","f","i","c","a","t","i","o","n","s">>,  \* certifications
    <<"c","o","n","t","a","c","t">>,  \* contact
    <<"c","o","n","t","a","c","t"," ","i","n","f","o">>,  \* contact info
    <<"c","o","r","e"," ","c","o","m","p","e","t","e","n","c","i","e","s">>,  \* core competencies
    <<"c","o","u","r","s","e","s">>,  \* courses
    <<"e","d","u","c","a","t","i","o","n">>,  \* education
    <<"e","m","p","l","o","y","m","e","n","t"," ","h","i","s","t","o","r","y">>,  \* employment history
    <<"e","x","p","e","r","i","e","n","c","e">>,  \* experience
    <<"h","o","b","b","i","e","s">>,  \* hobbies
    <<"i","n","t","e","r","e","s","t","s">>,  \* interests
    <<"l","a","n","g","u","a","g","e","s">>,  \* languages
    <<"l","i","c","e","n","s","e","s">>,  \* licenses
    <<"m","e","m","b","e","r","s","h","i","p","s">>,  \* memberships
    <<"o","b","j","e","c","t","i","v","e">>,  \* objective
    <<"p","r","o","f","e","s","s","i","o","n","a","l"," ","a","s","s","o","c","i","a","t","i","o","n","s">>,  \* professional associations
    <<"p","r","o","f","e","s","s","i","o","n","a","l"," ","e","x","p","e","r","i","e","n","c","e">>,  \* professional experience
    <<"p","r","o","f","e","s","s","i","o","n","a","l"," ","s","u","m","m","a","r","y">>,  \* professional summary
    <<"p","r","o","j","e","c","t","s">>,  \* projects
    <<"p","u","b","l","i","c","a","t","i","o","n","s">>,  \* publications
    <<"q","u","a","l","i","f","i","c","a","t","i","o","n","s">>,  \* qualifications
    <<"r","e","f","e","r","e","n","c","e","s">>,  \* references
    <<"s","k","i","l","l","s">>,  \* skills
    <<"s","u","m","m","a","r","y">>,  \* summary
    <<"t","e","c","h","n","i","c","a","l"," ","s","k","i","l","l","s">>,  \* technical skills
    <<"v","o","l","u","n","t","e","e","r"," ","e","x","p","e","r","i","e","n","c","e">>,  \* volunteer experience
    <<"v","o","l","u","n","t","e","e","r","i","n","g">>,  \* volunteering
    <<"w","o","r","k"," ","e","x","p","e","r","i","e","n","c","e">>  \* work experience
>>

PatternSet == {HEADER_PATTERNS[i] : i \in 1..Len(HEADER_PATTERNS)}

\* the keys of HeaderExtractor.SPACELESS_HEADERS
SPACELESS_HEADERS == {RemoveSpaces(h) : h \in PatternSet}

Abs(x) == IF x < 0 THEN -x ELSE x

\* round(x, 1) on a size in hundredths of a point (ties to even)
Round1(s) ==
    LET r == s % 10 IN
    IF r < 5 THEN s - r
    ELSE IF r > 5 THEN s - r + 10
    ELSE IF ((s - r) \div 10) % 2 = 0 THEN s - r ELSE s - r + 10

\* Counter(xs).most_common(1)[0][0]: the most frequent element, the one
\* first inserted among equally frequent ones
Count(xs, v) == Cardinality({i \in 1..Len(xs) : xs[i] = v})

MostCommon(xs) ==
    LET best == CHOOSE i \in 1..Len(xs) :
            /\ \A j \in 1..Len(xs) : Count(xs, xs[j]) <= Count(xs, xs[i])
            /\ \A j \in 1..(i - 1) : Count(xs, xs[j]) < Count(xs, xs[i])
    IN xs[best]

(***************************************************************************)
(* Line Builder: the dict built by _get_lines_with_style for one line.     *)
(* The concatenated, stripped line text, the mean span size, the           *)
(* any-span-bold flag, the first span's font and the block height are the  *)
(* inputs; the list is kept in ascending y, so a line's y is its position. *)
(***************************************************************************)
MakeLine(text, size, is_bold, font, block_height) ==
    [text         |-> text,
     clean        |-> clean_text(text),
     size         |-> size,
     is_bold      |-> is_bold,
     is_upper     |-> IsUpperStr(text) /\ Len(text) > 3,
     is_bullet    |-> IsBulletText(text),
     font         |-> font,
     block_height |-> block_height]

(***************************************************************************)
(* HeaderExtractor._merge_split_headers.  The dicts of the input list are  *)
(* updated in place, so the operator yields the input list as the call     *)
(* leaves it together with the list it returns.                            *)
(***************************************************************************)
SameStyle(current, next_line) ==
    /\ Abs(current.size - next_line.size) < 50
    /\ current.is_bold = next_line.is_bold
    /\ current.is_upper = next_line.is_upper

CombinedClean(current, next_line) == current.clean \o <<" ">> \o next_line.clean

MergesAt(ls, i) ==
    /\ i + 1 <= Len(ls)
    /\ SameStyle(ls[i], ls[i + 1])
    /\ (ls[i].is_upper \/ ls[i].is_bold)
    /\ \/ CombinedClean(ls[i], ls[i + 1]) \in PatternSet
       \/ RemoveSpaces(CombinedClean(ls[i], ls[i + 1])) \in SPACELESS_HEADERS

MergedLine(current, next_line) ==
    [current EXCEPT !.text  = current.text \o <<" ">> \o next_line.text,
                    !.clean = CombinedClean(current, next_line)]

RECURSIVE MergeFrom(_, _, _)
MergeFrom(ls, i, merged_lines) ==
    IF i > Len(ls) THEN [lines |-> ls, merged |-> merged_lines]
    ELSE IF MergesAt(ls, i)
    THEN LET m == MergedLine(ls[i], ls[i + 1])
         IN MergeFrom([ls EXCEPT ![i] = m], i + 2, Append(merged_lines, m))
    ELSE MergeFrom(ls, i + 1, Append(merged_lines, ls[i]))

merge_split_headers(ls) == MergeFrom(ls, 1, <<>>)

(***************************************************************************)
(* HeaderExtractor.extract: the scoring and the two kinds of pass          *)
(***************************************************************************)
NoTarget == [set |-> FALSE, size |-> 0, is_bold |-> FALSE, is_upper |-> FALSE, font |-> ""]

\* A/B of the scoring: 3 for an exact or spaceless keyword, 1 for a keyword
\* as substring, 0 for none
KeywordPoints(clean) ==
    IF clean \in PatternSet THEN 3
    ELSE IF RemoveSpaces(clean) \in SPACELESS_HEADERS THEN 3
    ELSE IF \E h \in PatternSet : Contains(h, clean) THEN 1
    ELSE 0

\* a variant of the prominence score that gives nothing for bold
ProminenceWithoutBold(line, bsize) ==
      (IF line.size > bsize + 100 THEN 2 ELSE 0)
    + (IF line.is_upper THEN 1 ELSE 0)

\* C of the scoring
ProminencePoints(line, bsize) ==
      (IF line.size > bsize + 100 THEN 2 ELSE 0)
    + (IF line.is_bold THEN 1 ELSE 0)
    + (IF line.is_upper THEN 1 ELSE 0)

LineScore(line, bsize) == KeywordPoints(line.clean) + ProminencePoints(line, bsize)

\* the three `continue`s at the head of the loop body
Skipped(line, tgt) ==
    \/ line.is_bullet
    \/ WordCount(line.clean) > 10
    \/ (KeywordPoints(line.clean) = 0 /\ ~tgt.set)

Texts(hs) == {hs[i].text : i \in 1..Len(hs)}

SizeMatch(line, tgt) == Abs(Round1(line.size) - tgt.size) <= 50

StyleMatch(line, tgt) ==
    /\ SizeMatch(line, tgt)
    /\ line.is_bold = tgt.is_bold
    /\ line.is_upper = tgt.is_upper
    /\ line.font = tgt.font

\* a variant of the pass-2 test that takes a keyword line at any size
KeywordAtAnySize(line, tgt) ==
    \/ StyleMatch(line, tgt)
    \/ RemoveSpaces(line.clean) \in SPACELESS_HEADERS

IsFinalHeader(line, tgt) ==
    \/ StyleMatch(line, tgt)
    \/ (RemoveSpaces(line.clean) \in SPACELESS_HEADERS /\ SizeMatch(line, tgt))

\* one execution of the for-loop body on `line`
ScanLine(st, line, tgt, bsize) ==
    IF Skipped(line, tgt) THEN st
    ELSE IF ~tgt.set
    THEN IF LineScore(line, bsize) >= 3 /\ line.text \notin Texts(st.detected)
         THEN [st EXCEPT !.detected = Append(@, line)]
         ELSE st
    ELSE IF IsFinalHeader(line, tgt) /\ line.text \notin Texts(st.final)
         THEN [st EXCEPT !.final = Append(@, line)]
         ELSE st

RECURSIVE ScanFrom(_, _, _, _, _)
ScanFrom(ls, i, st, tgt, bsize) ==
    IF i > Len(ls) THEN st
    ELSE ScanFrom(ls, i + 1, ScanLine(st, ls[i], tgt, bsize), tgt, bsize)

\* the for-loop over all_lines of one iteration of `while True`
ScanAll(ls, st, tgt, bsize) == ScanFrom(ls, 1, st, tgt, bsize)

\* the StyleProfile derived from the pass-1 candidates
DeriveTarget(hs) ==
    [set      |-> TRUE,
     size     |-> MostCommon([i \in 1..Len(hs) |-> Round1(hs[i].size)]),
     is_bold  |-> MostCommon([i \in 1..Len(hs) |-> hs[i].is_bold]),
     is_upper |-> MostCommon([i \in 1..Len(hs) |-> hs[i].is_upper]),
     font     |-> MostCommon([i \in 1..Len(hs) |-> hs[i].font])]

RECURSIVE SumHeights(_)
SumHeights(hs) == IF hs = <<>> THEN 0 ELSE Head(hs).block_height + SumHeights(Tail(hs))

\* sum(h["block_height"] for h in hs) / len(hs), kept as a fraction
AvgBlockHeight(hs) ==
    IF hs = <<>> THEN [num |-> 0, den |-> 1]
    ELSE [num |-> SumHeights(hs), den |-> Len(hs)]

(***************************************************************************)
(* Layout engine: blocks and geometry                                      *)
(*                                                                         *)
(* A block is [number, bbox, lines, full_text]: bbox = <<x0, y0, x1, y1>>, *)
(* lines a sequence of lines, each a sequence of spans [text, size].       *)
(* `number` is the block's index in the extractor's output, which makes    *)
(* any two blocks of a page unequal as dicts.                              *)
(***************************************************************************)
Left(b) == b.bbox[1]

Top(b) == b.bbox[2]

Right(b) == b.bbox[3]

Bottom(b) == b.bbox[4]

RECURSIVE SpansText(_)
SpansText(spans) ==
    IF spans = <<>> THEN <<>>
    ELSE Head(spans).text \o <<" ">> \o SpansText(Tail(spans))

RECURSIVE LinesText(_)
LinesText(ls) ==
    IF ls = <<>> THEN <<>>
    ELSE SpansText(Head(ls)) \o <<"\n">> \o LinesText(Tail(ls))

\* lines 68-73: b["full_text"]
WithFullText(b) == [b EXCEPT !.full_text = LinesText(b.lines)]

\* list.sort(key=lambda b: b["bbox"][1]): stable, ascending top
RECURSIVE InsertByTop(_, _)
InsertByTop(sorted, b) ==
    IF sorted = <<>> THEN <<b>>
    ELSE IF Top(sorted[Len(sorted)]) <= Top(b) THEN Append(sorted, b)
    ELSE Append(InsertByTop(SubSeq(sorted, 1, Len(sorted) - 1), b), sorted[Len(sorted)])

RECURSIVE SortFrom(_, _, _)
SortFrom(bs, i, acc) ==
    IF i > Len(bs) THEN acc ELSE SortFrom(bs, i + 1, InsertByTop(acc, bs[i]))

SortByTop(bs) == SortFrom(bs, 1, <<>>)

\* b in bs
InList(b, bs) == \E i \in 1..Len(bs) : bs[i] = b

\* bs.remove(b): drops the first element equal to b
RemoveFirst(bs, b) ==
    IF ~InList(b, bs) THEN bs
    ELSE LET k == CHOOSE i \in 1..Len(bs) :
                    bs[i] = b /\ \A j \in 1..(i - 1) : bs[j] # b
         IN SubSeq(bs, 1, k - 1) \o SubSeq(bs, k + 1, Len(bs))

\* any(header["text"] in b["full_text"].strip() for header in headings)
ContainsHeading(b, hs) ==
    \E i \in 1..Len(hs) : Contains(hs[i].text, Strip(b.full_text))

\* any(header["text"] == b["full_text"].strip() for header in headings)
EqualsHeading(b, hs) ==
    \E i \in 1..Len(hs) : hs[i].text = Strip(b.full_text)

\* a variant of the section test that compares without lowering the case
ContainsHeadingSameCase(b, hs) ==
    \E i \in 1..Len(hs) : Contains(hs[i].text, Strip(b.full_text))

\* any(header["text"].lower() in b["full_text"].strip().lower() for header in headers)
ContainsHeadingLower(b, hs) ==
    \E i \in 1..Len(hs) : Contains(StrLower(hs[i].text), StrLower(Strip(b.full_text)))

(***************************************************************************)
(* Average header gap, lines 82-87.  The loop indexes text_blocks[i+1]     *)
(* for every header-containing block at index i >= 1, which raises         *)
(* IndexError when that block is the last one.                             *)
(***************************************************************************)
GapIndexes(bs, hs) == {i \in 2..Len(bs) : ContainsHeading(bs[i], hs)}

GapRaises(bs, hs) == \E i \in GapIndexes(bs, hs) : i = Len(bs)

RECURSIVE SumGaps(_, _, _)
SumGaps(bs, hs, i) ==
    IF i >= Len(bs) THEN 0
    ELSE (IF ContainsHeading(bs[i], hs) THEN Top(bs[i + 1]) - Bottom(bs[i]) ELSE 0)
         + SumGaps(bs, hs, i + 1)

\* sum(header_gaps) / len(header_gaps) if header_gaps else 0, as a fraction
AvgHeaderGap(bs, hs) ==
    IF GapIndexes(bs, hs) = {} THEN [num |-> 0, den |-> 1]
    ELSE [num |-> SumGaps(bs, hs, 2), den |-> Cardinality(GapIndexes(bs, hs))]

(***************************************************************************)
(* Split detection, lines 90-112                                           *)
(***************************************************************************)
NoSplit == [found |-> FALSE, y |-> 0]

Width(b) == Right(b) - Left(b)

\* width < page.rect.width * 0.05
TooNarrow(b, page_width) == 100 * Width(b) < 5 * page_width

Min(a, b) == IF a <= b THEN a ELSE b

vertical_overlap(b1, b2) == Top(b2) < Bottom(b1) /\ Bottom(b2) > Top(b1)

horizontal_separation(b1, b2) == Right(b1) < Left(b2) \/ Right(b2) < Left(b1)

\* a variant of the inner loop that does not pass over narrow blocks
RECURSIVE InnerScanCountingNarrow(_, _, _, _)
InnerScanCountingNarrow(bs, i, j, page_width) ==
    IF j > Len(bs) THEN NoSplit
    ELSE IF Top(bs[j]) >= Bottom(bs[i]) THEN NoSplit
    ELSE IF vertical_overlap(bs[i], bs[j]) /\ horizontal_separation(bs[i], bs[j])
    THEN [found |-> TRUE, y |-> Min(Top(bs[i]), Top(bs[j]))]
    ELSE InnerScanCountingNarrow(bs, i, j + 1, page_width)

\* the inner loop over text_blocks[i+1:], from index j
RECURSIVE InnerScan(_, _, _, _)
InnerScan(bs, i, j, page_width) ==
    IF j > Len(bs) THEN NoSplit
    ELSE IF Top(bs[j]) >= Bottom(bs[i]) THEN NoSplit
    ELSE IF TooNarrow(bs[j], page_width) THEN InnerScan(bs, i, j + 1, page_width)
    ELSE IF vertical_overlap(bs[i], bs[j]) /\ horizontal_separation(bs[i], bs[j])
    THEN [found |-> TRUE, y |-> Min(Top(bs[i]), Top(bs[j]))]
    ELSE InnerScan(bs, i, j + 1, page_width)

\* the outer loop, from index i
RECURSIVE OuterScan(_, _, _)
OuterScan(bs, i, page_width) ==
    IF i > Len(bs) THEN NoSplit
    ELSE IF TooNarrow(bs[i], page_width) THEN OuterScan(bs, i + 1, page_width)
    ELSE LET r == InnerScan(bs, i, i + 1, page_width)
         IN IF r.found THEN r ELSE OuterScan(bs, i + 1, page_width)

FindSplitY(bs, page_width) == OuterScan(bs, 1, page_width)

(***************************************************************************)
(* Header-band classification, lines 126-154                               *)
(***************************************************************************)
\* found_split_y - 5
SplitMargin == 5

is_above_split(b, split_threshold) ==
    \/ Bottom(b) <= split_threshold
    \/ (Top(b) < split_threshold /\ Bottom(b) > split_threshold)

\* any(s["size"] <= body_size+2 for line in b["lines"] for s in line["spans"])
small_font(b, bsize) ==
    \E l \in 1..Len(b.lines) : \E s \in 1..Len(b.lines[l]) :
        b.lines[l][s].size <= bsize + 200

RECURSIVE ClassifyFrom(_, _, _, _, _, _)
ClassifyFrom(bs, i, hs, bsize, split_threshold, acc) ==
    IF i > Len(bs) THEN acc
    ELSE LET b == bs[i]
             prev_was_body == IF i > 1 THEN InList(bs[i - 1], acc.body) ELSE FALSE
             to_body ==
                 IF is_above_split(b, split_threshold)
                 THEN \/ ContainsHeading(b, hs)
                      \/ prev_was_body
                      \/ small_font(b, bsize)
                 ELSE TRUE
         IN ClassifyFrom(bs, i + 1, hs, bsize, split_threshold,
                IF to_body THEN [acc EXCEPT !.body = Append(@, b)]
                ELSE [acc EXCEPT !.header = Append(@, b)])

ClassifyBlocks(bs, hs, bsize, split_threshold) ==
    ClassifyFrom(bs, 1, hs, bsize, split_threshold, [header |-> <<>>, body |-> <<>>])

(***************************************************************************)
(* Column assignment and reconciliation, lines 160-237                     *)
(***************************************************************************)
RECURSIVE SumLeft(_)
SumLeft(bs) == IF bs = <<>> THEN 0 ELSE Left(Head(bs)) + SumLeft(Tail(bs))

\* sum(body_x0_values) / len(body_x0_values), as a fraction
DynamicCenter(body) == [num |-> SumLeft(body), den |-> Len(body)]

\* b["bbox"][0] < dynamic_center
LeftOfCenter(b, center) == Left(b) * center.den < center.num

\* header_block["bbox"][0] >= dynamic_center
AtOrRightOfCenter(b, center) == Left(b) * center.den >= center.num

\* lines 170-178: the geometric split, each column then sorted by top
InitialColumns(body, center) ==
    [left  |-> SortByTop(SelectSeq(body, LAMBDA b : LeftOfCenter(b, center))),
     right |-> SortByTop(SelectSeq(body, LAMBDA b : ~LeftOfCenter(b, center)))]

RECURSIVE RemoveAll(_, _)
RemoveAll(bs, moved) ==
    IF moved = <<>> THEN bs ELSE RemoveAll(RemoveFirst(bs, Head(moved)), Tail(moved))

\* pass A, lines 181-187: the blocks of left_col before the first one that
\* contains a heading, which are not above the split
RECURSIVE CollectToRight(_, _, _, _)
CollectToRight(left, i, hs, split_threshold) ==
    IF i > Len(left) THEN <<>>
    ELSE IF ContainsHeading(left[i], hs) THEN <<>>
    ELSE (IF ~is_above_split(left[i], split_threshold) THEN <<left[i]>> ELSE <<>>)
         \o CollectToRight(left, i + 1, hs, split_threshold)

\* pass A, lines 181-191
PassAColumns(cols, hs, split_threshold) ==
    LET to_move_to_right == CollectToRight(cols.left, 1, hs, split_threshold)
    IN [left  |-> RemoveAll(cols.left, to_move_to_right),
        right |-> cols.right \o to_move_to_right]

\* line 205: header_block governs normal_block
HeaderAlignTolerance == 10

\* a variant of the governing test that does not compare the left edges
GovernsUnaligned(header_block, normal_block, center) ==
    /\ Bottom(header_block) < Top(normal_block)
    /\ AtOrRightOfCenter(header_block, center)

Governs(header_block, normal_block, center) ==
    /\ Bottom(header_block) < Top(normal_block)
    /\ Left(header_block) <= Left(normal_block) + HeaderAlignTolerance
    /\ AtOrRightOfCenter(header_block, center)

\* lines 201-207: found_header for right_col[i]
FoundHeader(right, i, hs, center) ==
    \E j \in 1..(i - 1) :
        EqualsHeading(right[j], hs) /\ Governs(right[j], right[i], center)

\* pass B, lines 194-209
RECURSIVE CollectToLeft(_, _, _, _, _)
CollectToLeft(right, i, hs, center, to_move) ==
    IF i > Len(right) THEN to_move
    ELSE IF EqualsHeading(right[i], hs)
    THEN CollectToLeft(right, i + 1, hs, center, to_move)
    ELSE IF ~FoundHeader(right, i, hs, center) /\ ~InList(right[i], to_move)
    THEN CollectToLeft(right, i + 1, hs, center, Append(to_move, right[i]))
    ELSE CollectToLeft(right, i + 1, hs, center, to_move)

\* pass B, lines 194-217, the two sorts included
PassBColumns(cols, hs, center) ==
    LET to_move_to_left == CollectToLeft(cols.right, 1, hs, center, <<>>)
    IN [left  |-> SortByTop(cols.left \o to_move_to_left),
        right |-> SortByTop(RemoveAll(cols.right, to_move_to_left))]

\* line 219: avg_header_block_height > 0 and avg_header_gap > 0
PassCRuns(avg_h, avg_gap) == avg_h.num > 0 /\ avg_gap.num > 0

\* line 229: right_col[i+1].top - normal_block.bottom >=
\*           avg_header_gap + avg_header_block_height + 5
GapSlack == 5

GapAtLeast(gap, avg_h, avg_gap) ==
    gap * avg_gap.den * avg_h.den >=
        avg_gap.num * avg_h.den + avg_h.num * avg_gap.den
        + GapSlack * avg_gap.den * avg_h.den

\* pass C, lines 221-234: the scan of right_col[0 .. len-2]; st holds
\* gap_found, to_move_to_left and the number of times gap_found was set
RECURSIVE ScanGaps(_, _, _, _, _, _)
ScanGaps(right, i, hs, avg_h, avg_gap, st) ==
    IF i > Len(right) - 1 THEN st
    ELSE IF ContainsHeading(right[i], hs)
    THEN ScanGaps(right, i + 1, hs, avg_h, avg_gap, [st EXCEPT !.gap_found = FALSE])
    ELSE LET sets == /\ GapAtLeast(Top(right[i + 1]) - Bottom(right[i]), avg_h, avg_gap)
                     /\ ~st.gap_found
                     /\ ~ContainsHeading(right[i + 1], hs)
             found == st.gap_found \/ sets
         IN ScanGaps(right, i + 1, hs, avg_h, avg_gap,
                [gap_found |-> found,
                 to_move   |-> IF found THEN Append(st.to_move, right[i + 1])
                               ELSE st.to_move,
                 times_set |-> st.times_set + (IF sets THEN 1 ELSE 0)])

PassCScan(right, hs, avg_h, avg_gap) ==
    ScanGaps(right, 1, hs, avg_h, avg_gap,
             [gap_found |-> FALSE, to_move |-> <<>>, times_set |-> 0])

\* a variant of pass C that leaves the moved blocks in right_col as well
PassCKeepingMoved(cols, hs, avg_h, avg_gap) ==
    IF ~PassCRuns(avg_h, avg_gap) THEN cols
    ELSE LET to_move_to_left == PassCScan(cols.right, hs, avg_h, avg_gap).to_move
         IN [left  |-> cols.left \o to_move_to_left,
             right |-> cols.right]

\* pass C, lines 219-237
PassCColumns(cols, hs, avg_h, avg_gap) ==
    IF ~PassCRuns(avg_h, avg_gap) THEN cols
    ELSE LET to_move_to_left == PassCScan(cols.right, hs, avg_h, avg_gap).to_move
         IN [left  |-> cols.left \o to_move_to_left,
             right |-> RemoveAll(cols.right, to_move_to_left)]

(***************************************************************************)
(* draw_section_boundaries, lines 3-39: the groups drawn and their         *)
(* rectangles                                                              *)
(***************************************************************************)
\* fitz.Rect | fitz.Rect, for rectangles of positive width and height
RectUnion(r, s) ==
    <<Min(r[1], s[1]), Min(r[2], s[2]),
      IF r[3] >= s[3] THEN r[3] ELSE s[3], IF r[4] >= s[4] THEN r[4] ELSE s[4]>>

\* fitz.Rect + (1,1,1,1): the tuple is added coordinate by coordinate
RectAdd1(r) == <<r[1] + 1, r[2] + 1, r[3] + 1, r[4] + 1>>

\* lines 19-22: the rectangle of a group closed by a following header
RECURSIVE PaddedUnion(_, _)
PaddedUnion(rect, rest) ==
    IF rest = <<>> THEN rect
    ELSE PaddedUnion(RectAdd1(RectUnion(rect, Head(rest).bbox)), Tail(rest))

\* lines 35-37: the rectangle of the last group
RECURSIVE PlainUnion(_, _)
PlainUnion(rect, rest) ==
    IF rest = <<>> THEN rect
    ELSE PlainUnion(RectUnion(rect, Head(rest).bbox), Tail(rest))

SectionOf(group, is_last) ==
    [members |-> group,
     rect    |-> IF is_last THEN PlainUnion(group[1].bbox, Tail(group))
                 ELSE PaddedUnion(group[1].bbox, Tail(group)),
     label   |-> StrLower(Strip(group[1].full_text))]

\* the loop of lines 12-31 from index i, then lines 34-39
RECURSIVE GroupFrom(_, _, _, _, _)
GroupFrom(column_blocks, i, headers, current_section_group, drawn) ==
    IF i > Len(column_blocks)
    THEN IF current_section_group # <<>>
         THEN Append(drawn, SectionOf(current_section_group, TRUE))
         ELSE drawn
    ELSE IF ContainsHeadingLower(column_blocks[i], headers)
    THEN GroupFrom(column_blocks, i + 1, headers, <<column_blocks[i]>>,
             IF current_section_group # <<>>
             THEN Append(drawn, SectionOf(current_section_group, FALSE))
             ELSE drawn)
    ELSE GroupFrom(column_blocks, i + 1, headers,
             Append(current_section_group, column_blocks[i]), drawn)

draw_section_boundaries(column_blocks, headers) ==
    IF column_blocks = <<>> THEN <<>>
    ELSE GroupFrom(column_blocks, 1, headers, <<>>, <<>>)

(***************************************************************************)
(* Input lines                                                             *)
(***************************************************************************)
T_EXPERIENCE == <<"E","X","P","E","R","I","E","N","C","E">>  \* "EXPERIENCE"

T_Skills == <<"S","k","i","l","l","s">>  \* "Skills"

T_MY_SKILLS == <<"M","Y"," ","S","K","I","L","L","S">>  \* "MY SKILLS"

T_Key_Projects == <<"K","e","y"," ","P","r","o","j","e","c","t","s">>  \* "Key Projects"

T_Team_Lead == <<"T","e","a","m"," ","L","e","a","d">>  \* "Team Lead"

T_TEAM_LEAD == <<"T","E","A","M"," ","L","E","A","D">>  \* "TEAM LEAD"

T_Bullet_Skills == <<"-"," ","S","k","i","l","l","s">>  \* "- Skills"

T_Long_Skills == <<"S","K","I","L","L","S"," ","A"," ","B"," ","C"," ","D"," ","E"," ","F"," ","G"," ","H"," ","I"," ","J">>  \* "SKILLS A B C D E F G H I J"

T_Education_Colon == <<"E","d","u","c","a","t","i","o","n",":">>  \* "Education:"

T_SKI == <<"S","K","I">>  \* "SKI"

T_LLS == <<"L","L","S">>  \* "LLS"

T_Work == <<"W","o","r","k">>  \* "Work"

T_Experience == <<"E","x","p","e","r","i","e","n","c","e">>  \* "Experience"

T_WORK == <<"W","O","R","K">>  \* "WORK"

\* (mean span size, any-span-bold, first span's font, block height) of a line;
\* a font whose name holds "bold" makes the line bold
LineStyles ==
    { [size |-> 1000, is_bold |-> FALSE, font |-> "Helvetica",  block_height |-> 12],
      [size |-> 1000, is_bold |-> TRUE,  font |-> "Helvetica",  block_height |-> 12],
      [size |-> 1200, is_bold |-> TRUE,  font |-> "Times-Bold", block_height |-> 14],
      [size |-> 1400, is_bold |-> TRUE,  font |-> "Times-Bold", block_height |-> 16],
      [size |-> 1454, is_bold |-> TRUE,  font |-> "Helvetica",  block_height |-> 16] }

LineTexts ==
    { T_EXPERIENCE, T_Skills, T_MY_SKILLS, T_Key_Projects, T_TEAM_LEAD,
      T_Bullet_Skills, T_Long_Skills, T_Education_Colon }

RawLines == [text : LineTexts, style : LineStyles]

BuildLine(raw) ==
    MakeLine(raw.text, raw.style.size, raw.style.is_bold, raw.style.font,
             raw.style.block_height)

\* the longest line list of the header extractor's inputs
MaxLines == 3

\* iterations of `while True` that are counted
MaxPasses == 3

VARIABLES
    lines,             \* the Line list handed to _merge_split_headers
    orig_lines,        \* the Line list as built, before any call
    all_lines,         \* extract: all_lines after the merge
    body_size,         \* extract: body_size
    detected_headers,  \* extract: detected_headers
    final_headers,     \* extract: final_headers
    target,            \* extract: target_size, target_is_bold, target_is_upper, target_font_name
    pc,                \* extract: "start", "loop" (inside while True), "returned"
    passes,            \* completed iterations of while True (counted up to MaxPasses)
    result,            \* the header list returned
    avg_header_block_height,  \* the mean block height returned, as a fraction
    run,               \* "first", "again" (same list classified again), "premerged"
    first_result       \* the header list of the first run

hvars == <<lines, orig_lines, all_lines, body_size, detected_headers, final_headers,
           target, pc, passes, result, avg_header_block_height, run, first_result>>

VARIABLES
    text_blocks,       \* generate_layout_debug_pdf: text_blocks
    headings,          \* the headings argument
    page_width,        \* page.rect.width
    avg_header_gap,    \* avg_header_gap, as a fraction
    found_split_y,     \* found_split_y, [found, y]
    header_blocks,     \* header_blocks
    body_blocks,       \* body_blocks
    dynamic_center,    \* dynamic_center, as a fraction
    left_col,          \* left_col
    right_col,         \* right_col
    sections_left,     \* what draw_section_boundaries draws for left_col
    sections_right,    \* what draw_section_boundaries draws for right_col
    lpc                \* position in generate_layout_debug_pdf

lvars == <<text_blocks, headings, page_width, avg_header_gap, found_split_y,
           header_blocks, body_blocks, dynamic_center, left_col, right_col,
           sections_left, sections_right, lpc>>

vars == <<hvars, lvars>>

\* the layout engine has not been called
LayoutIdle ==
    /\ text_blocks = <<>>
    /\ headings = <<>>
    /\ page_width = 0
    /\ avg_header_gap = [num |-> 0, den |-> 1]
    /\ found_split_y = NoSplit
    /\ header_blocks = <<>>
    /\ body_blocks = <<>>
    /\ dynamic_center = [num |-> 0, den |-> 1]
    /\ left_col = <<>>
    /\ right_col = <<>>
    /\ sections_left = <<>>
    /\ sections_right = <<>>
    /\ lpc = "idle"

InitLines(domain) ==
    /\ \E n \in 0..MaxLines : \E raw \in [1..n -> domain] :
          lines = [i \in 1..n |-> BuildLine(raw[i])]
    /\ orig_lines = lines
    /\ all_lines = <<>>
    /\ body_size = 0
    /\ detected_headers = <<>>
    /\ final_headers = <<>>
    /\ target = NoTarget
    /\ pc = "start"
    /\ passes = 0
    /\ result = <<>>
    /\ avg_header_block_height = [num |-> 0, den |-> 1]
    /\ run = "first"
    /\ first_result = <<>>

\* extract, lines 101-114: the merge, the empty-document return, body_size
Start ==
    /\ pc = "start"
    /\ LET m == merge_split_headers(lines) IN
       /\ lines' = m.lines
       /\ all_lines' = m.merged
       /\ IF m.merged = <<>>
          THEN /\ pc' = "returned"
               /\ body_size' = 0
          ELSE /\ pc' = "loop"
               /\ body_size' = MostCommon([i \in 1..Len(m.merged) |-> Round1(m.merged[i].size)])
    /\ detected_headers' = <<>>
    /\ final_headers' = <<>>
    /\ target' = NoTarget
    /\ passes' = 0
    /\ result' = <<>>
    /\ avg_header_block_height' = [num |-> 0, den |-> 1]
    /\ UNCHANGED <<orig_lines, run, first_result, lvars>>

\* extract, lines 116-194: one iteration of `while True`, with the return
\* or break that ends it
ScanPass ==
    /\ pc = "loop"
    /\ LET st == ScanAll(all_lines,
                         [detected |-> detected_headers, final |-> final_headers],
                         target, body_size)
       IN
       /\ detected_headers' = st.detected
       /\ final_headers' = st.final
       /\ IF st.final # <<>>
          THEN /\ pc' = "returned"
               /\ result' = st.final
               /\ avg_header_block_height' = AvgBlockHeight(st.final)
               /\ target' = target
          ELSE IF st.detected # <<>>
          THEN /\ pc' = "loop"
               /\ target' = DeriveTarget(st.detected)
               /\ UNCHANGED <<result, avg_header_block_height>>
          ELSE /\ pc' = "returned"
               /\ result' = st.detected
               /\ avg_header_block_height' = AvgBlockHeight(st.detected)
               /\ target' = target
    /\ passes' = IF passes < MaxPasses THEN passes + 1 ELSE passes
    /\ UNCHANGED <<lines, orig_lines, all_lines, body_size, run, first_result, lvars>>

Init == InitLines(RawLines) /\ LayoutIdle

Next == Start \/ ScanPass

Spec == Init /\ [][Next]_vars

(***************************************************************************)
(* generate_layout_debug_pdf as a sequence of steps                        *)
(***************************************************************************)
\* the header extractor is not running; body_size and
\* avg_header_block_height hold the arguments of generate_layout_debug_pdf
ExtractorIdle ==
    /\ lines = <<>>
    /\ orig_lines = <<>>
    /\ all_lines = <<>>
    /\ detected_headers = <<>>
    /\ final_headers = <<>>
    /\ target = NoTarget
    /\ pc = "idle"
    /\ passes = 0
    /\ result = <<>>
    /\ run = "first"
    /\ first_result = <<>>

\* lines 63-88: full_text, the no-text return, the sort by top, the average
\* header gap (or the IndexError it raises)
LoadBlocks ==
    /\ lpc = "load"
    /\ LET sorted == SortByTop([i \in 1..Len(text_blocks) |-> WithFullText(text_blocks[i])])
       IN
       /\ text_blocks' = sorted
       /\ IF sorted = <<>>
          THEN lpc' = "done" /\ UNCHANGED avg_header_gap
          ELSE IF GapRaises(sorted, headings)
          THEN lpc' = "raised" /\ UNCHANGED avg_header_gap
          ELSE lpc' = "split" /\ avg_header_gap' = AvgHeaderGap(sorted, headings)
    /\ UNCHANGED <<headings, page_width, found_split_y, header_blocks, body_blocks,
                   dynamic_center, left_col, right_col, sections_left,
                   sections_right, hvars>>

\* lines 90-121: the split search; without a split every block is drawn as
\* "Body" and the function is done
FindSplit ==
    /\ lpc = "split"
    /\ found_split_y' = FindSplitY(text_blocks, page_width)
    /\ lpc' = IF found_split_y'.found THEN "classify" ELSE "done"
    /\ UNCHANGED <<text_blocks, headings, page_width, avg_header_gap, header_blocks,
                   body_blocks, dynamic_center, left_col, right_col, sections_left,
                   sections_right, hvars>>

split_threshold == found_split_y.y - SplitMargin

\* lines 124-163: header-band classification
Classify ==
    /\ lpc = "classify"
    /\ LET c == ClassifyBlocks(text_blocks, headings, body_size, split_threshold)
       IN
       /\ header_blocks' = SortByTop(c.header)
       /\ body_blocks' = c.body
       /\ lpc' = IF c.body # <<>> THEN "columns" ELSE "draw"
    /\ UNCHANGED <<text_blocks, headings, page_width, avg_header_gap, found_split_y,
                   dynamic_center, left_col, right_col, sections_left,
                   sections_right, hvars>>

\* lines 165-178: dynamic_center and the geometric left/right split
InitialSplit ==
    /\ lpc = "columns"
    /\ dynamic_center' = DynamicCenter(body_blocks)
    /\ LET cols == InitialColumns(body_blocks, dynamic_center')
       IN left_col' = cols.left /\ right_col' = cols.right
    /\ lpc' = "passA"
    /\ UNCHANGED <<text_blocks, headings, page_width, avg_header_gap, found_split_y,
                   header_blocks, body_blocks, sections_left, sections_right, hvars>>

\* lines 180-191: reconciliation pass A
PassA ==
    /\ lpc = "passA"
    /\ LET cols == PassAColumns([left |-> left_col, right |-> right_col],
                                headings, split_threshold)
       IN left_col' = cols.left /\ right_col' = cols.right
    /\ lpc' = "passB"
    /\ UNCHANGED <<text_blocks, headings, page_width, avg_header_gap, found_split_y,
                   header_blocks, body_blocks, dynamic_center, sections_left,
                   sections_right, hvars>>

\* lines 193-217: reconciliation pass B and the sort of both columns
PassB ==
    /\ lpc = "passB"
    /\ LET cols == PassBColumns([left |-> left_col, right |-> right_col],
                                headings, dynamic_center)
       IN left_col' = cols.left /\ right_col' = cols.right
    /\ lpc' = "passC"
    /\ UNCHANGED <<text_blocks, headings, page_width, avg_header_gap, found_split_y,
                   header_blocks, body_blocks, dynamic_center, sections_left,
                   sections_right, hvars>>

\* lines 219-237: reconciliation pass C
PassC ==
    /\ lpc = "passC"
    /\ LET cols == PassCColumns([left |-> left_col, right |-> right_col],
                                headings, avg_header_block_height, avg_header_gap)
       IN left_col' = cols.left /\ right_col' = cols.right
    /\ lpc' = "draw"
    /\ UNCHANGED <<text_blocks, headings, page_width, avg_header_gap, found_split_y,
                   header_blocks, body_blocks, dynamic_center, sections_left,
                   sections_right, hvars>>

\* lines 239-276: the drawing commands; the section boxes of both columns
Draw ==
    /\ lpc = "draw"
    /\ sections_left' = draw_section_boundaries(left_col, headings)
    /\ sections_right' = draw_section_boundaries(right_col, headings)
    /\ lpc' = "done"
    /\ UNCHANGED <<text_blocks, headings, page_width, avg_header_gap, found_split_y,
                   header_blocks, body_blocks, dynamic_center, left_col, right_col,
                   hvars>>

LayoutNext ==
    \/ LoadBlocks
    \/ FindSplit
    \/ Classify
    \/ InitialSplit
    \/ PassA
    \/ PassB
    \/ PassC
    \/ Draw

(***************************************************************************)
(* Pages of the layout engine: a grid of rows, each with at most one block *)
(* in the left and one in the right half of the page.  The extractor       *)
(* lists the left half's blocks top down, then the right half's.           *)
(***************************************************************************)
\* the most blocks on a page
MaxBlocks == 5

Rows == 1..4

RowHeight == 10

\* rows 1 and 2 are 10 apart, later rows 30
RowTop(r) == IF r = 1 THEN 0 ELSE 20 + 40 * (r - 2)

PageWidth == 600

BodySize == 1000

\* "name": a large span followed by a small one in one block, which stands
\* at the top of the page
LeftCells == {"none", "body", "heading", "mixed", "title", "name"}

RightCells == {"none", "body", "heading", "mixed", "indented"}

CellSpans(kind) ==
    CASE kind = "heading" -> <<[text |-> T_Skills, size |-> 1200]>>
      [] kind = "mixed"   -> <<[text |-> T_Skills, size |-> 1200],
                               [text |-> T_Team_Lead, size |-> 1000]>>
      [] kind = "title"   -> <<[text |-> T_TEAM_LEAD, size |-> 2000]>>
      [] kind = "name"    -> <<[text |-> T_TEAM_LEAD, size |-> 2000],
                               [text |-> T_Team_Lead, size |-> 1000]>>
      [] OTHER            -> <<[text |-> T_Team_Lead, size |-> 1000]>>

CellBlock(kind, side, r) ==
    [number    |-> 0,
     bbox      |-> <<IF side = "left" THEN 0 ELSE IF kind = "indented" THEN 320 ELSE 300,
                     RowTop(r),
                     IF side = "left" THEN 200 ELSE 500,
                     RowTop(r) + RowHeight>>,
     lines     |-> <<CellSpans(kind)>>,
     full_text |-> <<>>,
     kind      |-> kind]

\* the blocks as page.get_text("dict") lists them
Numbered(bs) == [k \in 1..Len(bs) |-> [number |-> k, bbox |-> bs[k].bbox,
                                       lines |-> bs[k].lines, full_text |-> <<>>]]

GridPage(lc, rc) ==
    Numbered(SelectSeq(
        [r \in Rows |-> CellBlock(lc[r], "left", r)]
            \o [r \in Rows |-> CellBlock(rc[r], "right", r)],
        LAMBDA b : b.kind # "none"))

\* the headings argument with the avg_header_block_height that comes with it
HeadingArgs ==
    { [headings |-> <<>>, avg |-> [num |-> 0, den |-> 1]],
      [headings |-> <<[text |-> T_Skills]>>, avg |-> [num |-> 10, den |-> 1]] }

LayoutStart ==
    /\ avg_header_gap = [num |-> 0, den |-> 1]
    /\ found_split_y = NoSplit
    /\ header_blocks = <<>>
    /\ body_blocks = <<>>
    /\ dynamic_center = [num |-> 0, den |-> 1]
    /\ left_col = <<>>
    /\ right_col = <<>>
    /\ sections_left = <<>>
    /\ sections_right = <<>>
    /\ lpc = "load"

LayoutInit ==
    /\ ExtractorIdle
    /\ body_size = BodySize
    /\ page_width = PageWidth
    /\ \E lc \in [Rows -> LeftCells], rc \in [Rows -> RightCells] :
          /\ Cardinality({r \in Rows : lc[r] # "none"})
                + Cardinality({r \in Rows : rc[r] # "none"}) <= MaxBlocks
          /\ \A r \in Rows : lc[r] = "name" => r = 1
          /\ text_blocks = GridPage(lc, rc)
    /\ \E a \in HeadingArgs :
          headings = a.headings /\ avg_header_block_height = a.avg
    /\ LayoutStart

LayoutSpec == LayoutInit /\ [][LayoutNext]_vars

(***************************************************************************)
(* Pages for the split detector: blocks of varied extent, in any order     *)
(***************************************************************************)
\* the most blocks on a page given to the split detector
MaxSplitBlocks == 3

\* narrow (20 < 5% of 600), left half, right half, across the middle
SplitXExtents == {<<0, 20>>, <<0, 200>>, <<300, 500>>, <<100, 400>>}

SplitYExtents == {<<0, 10>>, <<0, 30>>, <<20, 30>>, <<20, 50>>, <<40, 50>>}

SplitBlock(k, x, y) ==
    [number    |-> k,
     bbox      |-> <<x[1], y[1], x[2], y[2]>>,
     lines     |-> <<CellSpans("body")>>,
     full_text |-> <<>>]

SplitInit ==
    /\ ExtractorIdle
    /\ body_size = BodySize
    /\ page_width = PageWidth
    /\ \E n \in 0..MaxSplitBlocks :
          \E xs \in [1..n -> SplitXExtents], ys \in [1..n -> SplitYExtents] :
              text_blocks = [k \in 1..n |-> SplitBlock(k, xs[k], ys[k])]
    /\ headings = <<>>
    /\ avg_header_block_height = [num |-> 0, den |-> 1]
    /\ LayoutStart

SplitSpec == SplitInit /\ [][LayoutNext]_vars

(***************************************************************************)
(* Columns for draw_section_boundaries: any list of blocks                 *)
(***************************************************************************)
\* the longest column given to draw_section_boundaries
MaxColumn == 3

\* a heading alone, a heading in other case, a heading with more text, no heading
SectionTexts == {T_Skills, T_MY_SKILLS, T_Skills \o <<" ">> \o T_Team_Lead, T_Team_Lead}

SectionXExtents == {<<0, 200>>, <<20, 180>>}

SectionBlock(k, text, x) ==
    WithFullText([number    |-> k,
                  bbox      |-> <<x[1], RowTop(k), x[2], RowTop(k) + RowHeight>>,
                  lines     |-> <<<<[text |-> text, size |-> 1000]>>>>,
                  full_text |-> <<>>])

SectionInit ==
    /\ ExtractorIdle
    /\ body_size = BodySize
    /\ page_width = PageWidth
    /\ text_blocks = <<>>
    /\ \E n \in 0..MaxColumn :
          \E ts \in [1..n -> SectionTexts], xs \in [1..n -> SectionXExtents] :
              left_col = [k \in 1..n |-> SectionBlock(k, ts[k], xs[k])]
    /\ \E t \in SectionTexts :
          right_col = <<SectionBlock(MaxColumn + 1, t, <<300, 500>>)>>
    /\ \E a \in HeadingArgs :
          headings = a.headings /\ avg_header_block_height = a.avg
    /\ avg_header_gap = [num |-> 0, den |-> 1]
    /\ found_split_y = NoSplit
    /\ header_blocks = <<>>
    /\ body_blocks = <<>>
    /\ dynamic_center = [num |-> 0, den |-> 1]
    /\ sections_left = <<>>
    /\ sections_right = <<>>
    /\ lpc = "draw"

SectionSpec == SectionInit /\ [][Draw]_vars

(***************************************************************************)
(* The classifier run again: on the Line list of the first run, or on a    *)
(* list in which each pair the merge joins is one line built from the      *)
(* combined text                                                           *)
(***************************************************************************)
RerunStyles ==
    { [size |-> 1000, is_bold |-> FALSE, font |-> "Helvetica",  block_height |-> 12],
      [size |-> 1400, is_bold |-> TRUE,  font |-> "Helvetica",  block_height |-> 16],
      [size |-> 1400, is_bold |-> TRUE,  font |-> "Times-Bold", block_height |-> 16] }

RerunTexts == {T_SKI, T_LLS, T_Work, T_Experience, T_WORK, T_EXPERIENCE, T_TEAM_LEAD}

RerunLines == [text : RerunTexts, style : RerunStyles]

RECURSIVE PremergeFrom(_, _, _)
PremergeFrom(ls, i, out) ==
    IF i > Len(ls) THEN out
    ELSE IF MergesAt(ls, i)
    THEN PremergeFrom(ls, i + 2,
             Append(out, MakeLine(ls[i].text \o <<" ">> \o ls[i + 1].text, ls[i].size,
                                  ls[i].is_bold, ls[i].font, ls[i].block_height)))
    ELSE PremergeFrom(ls, i + 1, Append(out, ls[i]))

Premerged(ls) == PremergeFrom(ls, 1, <<>>)

\* the merge and the passes are run once more on the list of the first run
RunAgain ==
    /\ pc = "returned"
    /\ run = "first"
    /\ run' = "again"
    /\ first_result' = result
    /\ pc' = "start"
    /\ UNCHANGED <<lines, orig_lines, all_lines, body_size, detected_headers,
                   final_headers, target, passes, result, avg_header_block_height,
                   lvars>>

\* the merge and the passes are run on the pre-merged list
RunPremerged ==
    /\ pc = "returned"
    /\ run = "first"
    /\ \E i \in 1..Len(orig_lines) : MergesAt(orig_lines, i)
    /\ run' = "premerged"
    /\ first_result' = result
    /\ lines' = Premerged(orig_lines)
    /\ pc' = "start"
    /\ UNCHANGED <<orig_lines, all_lines, body_size, detected_headers,
                   final_headers, target, passes, result, avg_header_block_height,
                   lvars>>

RerunInit == InitLines(RerunLines) /\ LayoutIdle

RerunNext == Start \/ ScanPass \/ RunAgain \/ RunPremerged

RerunSpec == RerunInit /\ [][RerunNext]_vars

(***************************************************************************)
(* Pages for pass C: one block in the left half, and in the right half a   *)
(* column of headings and body blocks at small and large distances         *)
(***************************************************************************)
\* the most blocks in the right half of such a page
MaxRightBlocks == 6

GapKinds == {"heading", "body"}

\* from the bottom of a block to the top of the next one
GapSteps == {10, 40}

RECURSIVE GapTop(_, _)
GapTop(steps, k) ==
    IF k = 1 THEN 0 ELSE GapTop(steps, k - 1) + RowHeight + steps[k - 1]

GapBlock(kind, top) ==
    [number    |-> 0,
     bbox      |-> <<300, top, 500, top + RowHeight>>,
     lines     |-> <<CellSpans(kind)>>,
     full_text |-> <<>>,
     kind      |-> kind]

GapPage(kinds, steps) ==
    Numbered(<<CellBlock("body", "left", 1)>>
                 \o [k \in 1..Len(kinds) |-> GapBlock(kinds[k], GapTop(steps, k))])

GapInit ==
    /\ ExtractorIdle
    /\ body_size = BodySize
    /\ page_width = PageWidth
    /\ \E n \in 0..MaxRightBlocks :
          \E kinds \in [1..n -> GapKinds], steps \in [1..(n - 1) -> GapSteps] :
              text_blocks = GapPage(kinds, steps)
    /\ headings = <<[text |-> T_Skills]>>
    /\ avg_header_block_height = [num |-> 10, den |-> 1]
    /\ LayoutStart

GapSpec == GapInit /\ [][LayoutNext]_vars

(***************************************************************************)
(* Claims about the header extractor                                       *)
(***************************************************************************)

\* C1 (as claimed): extract makes one bootstrap pass, one profile derivation
\* and one confirmation pass, then returns; when the confirmation pass has
\* confirmed nothing while pass-1 candidates exist, what it returns is the
\* pass-1 candidate list.
C1_TwoPassesThenReturn ==
    passes >= 2 =>
        /\ pc = "returned"
        /\ (final_headers = <<>> => result = detected_headers)

\* C6 (as claimed): every returned header matches the derived profile, or is
\* a keyword (spaces ignored) whose size is within 0.5pt of the profile's;
\* the size compared is the line's own size.
RawSizeMatch(h) == Abs(h.size - target.size) <= 50

C6_ReturnedMatchRawSize ==
    pc = "returned" =>
        \A i \in 1..Len(result) :
            \/ /\ RawSizeMatch(result[i])
               /\ result[i].is_bold = target.is_bold
               /\ result[i].is_upper = target.is_upper
               /\ result[i].font = target.font
            \/ /\ RemoveSpaces(result[i].clean) \in SPACELESS_HEADERS
               /\ RawSizeMatch(result[i])

\* C6 (amended): the same, with the line's size rounded to 0.1pt before it is
\* compared with the profile size.
RoundedSizeMatch(h) == Abs(Round1(h.size) - target.size) <= 50

C6_ReturnedMatchRoundedSize ==
    pc = "returned" =>
        \A i \in 1..Len(result) :
            /\ target.set
            /\ \/ /\ RoundedSizeMatch(result[i])
                  /\ result[i].is_bold = target.is_bold
                  /\ result[i].is_upper = target.is_upper
                  /\ result[i].font = target.font
               \/ /\ RemoveSpaces(result[i].clean) \in SPACELESS_HEADERS
                  /\ RoundedSizeMatch(result[i])

\* C6 witness: a header is returned through the keyword branch alone (its
\* style differs from the profile), next to one returned by style.
C6_Witness ==
    /\ pc = "returned"
    /\ \E i \in 1..Len(result) :
          /\ result[i].font # target.font
          /\ RemoveSpaces(result[i].clean) \in SPACELESS_HEADERS
    /\ \E i \in 1..Len(result) :
          /\ result[i].font = target.font
          /\ RemoveSpaces(result[i].clean) \notin SPACELESS_HEADERS

\* The score as the claim C7 words it.
C7_KeywordScore(l) ==
    IF l.clean \in PatternSet \/ RemoveSpaces(l.clean) \in SPACELESS_HEADERS THEN 3
    ELSE IF \E h \in PatternSet : Contains(h, l.clean) THEN 1
    ELSE 0

C7_Score(l) ==
      C7_KeywordScore(l)
    + (IF l.size > body_size + 100 THEN 2 ELSE 0)
    + (IF l.is_bold THEN 1 ELSE 0)
    + (IF l.is_upper THEN 1 ELSE 0)

C7_Eligible(l) == ~l.is_bullet /\ WordCount(l.clean) <= 10 /\ C7_Score(l) >= 3

\* the candidate list holds a line of each text in `ls`, the first such
\* line, once
C7_FirstOccurrences(ls) ==
    /\ \A i \in 1..Len(ls) :
          \/ \E k \in 1..Len(detected_headers) : detected_headers[k] = ls[i]
          \/ \E j \in 1..(i - 1) : ls[j].text = ls[i].text
    /\ \A k, m \in 1..Len(detected_headers) :
          detected_headers[k].text = detected_headers[m].text => k = m

C7_Is14ptExperience(l) ==
    l.text = T_EXPERIENCE /\ l.size = 1400 /\ l.is_bold /\ l.is_upper

\* C7 (as claimed): after pass 1 every eligible line (non-bullet, at most 10
\* words, score >= 3) is a candidate, first occurrence per text; and a 14pt
\* bold "EXPERIENCE" among 10pt lines is a candidate and is confirmed.
C7_EveryScoredLineIsCandidate ==
    /\ passes >= 1 =>
          C7_FirstOccurrences(SelectSeq(all_lines, C7_Eligible))
    /\ \A i \in 1..Len(all_lines) :
          (/\ C7_Is14ptExperience(all_lines[i])
           /\ \A j \in 1..Len(all_lines) : j # i => all_lines[j].size = 1000)
          => /\ passes >= 1 => T_EXPERIENCE \in Texts(detected_headers)
             /\ passes >= 2 => pc = "returned" /\ T_EXPERIENCE \in Texts(result)

C7_EligibleWithKeyword(l) == C7_Eligible(l) /\ C7_KeywordScore(l) > 0

\* C7 (amended): after pass 1 every eligible line that holds a keyword
\* (exact, space-stripped or as substring) is a candidate, first occurrence
\* per text; and a 14pt bold "EXPERIENCE" among 10pt lines of which none is
\* itself a candidate is a candidate and is confirmed in pass 2.
C7_EveryKeywordLineIsCandidate ==
    /\ passes >= 1 =>
          C7_FirstOccurrences(SelectSeq(all_lines, C7_EligibleWithKeyword))
    /\ \A i \in 1..Len(all_lines) :
          (/\ C7_Is14ptExperience(all_lines[i])
           /\ \A j \in 1..Len(all_lines) : j # i =>
                 all_lines[j].size = 1000 /\ ~C7_EligibleWithKeyword(all_lines[j]))
          => /\ passes >= 1 => T_EXPERIENCE \in Texts(detected_headers)
             /\ passes >= 2 => pc = "returned" /\ T_EXPERIENCE \in Texts(result)

\* C7 witness: both passes have run over a 14pt bold "EXPERIENCE" among 10pt
\* lines, one of them holding a keyword as substring without being eligible;
\* "EXPERIENCE" is the one candidate and has been confirmed.
C7_Witness ==
    /\ pc = "returned"
    /\ passes = 2
    /\ Len(all_lines) = 3
    /\ \E i \in 1..3 : C7_Is14ptExperience(all_lines[i])
    /\ \E j \in 1..3 :
          /\ all_lines[j].size = 1000
          /\ C7_KeywordScore(all_lines[j]) = 1
          /\ ~C7_Eligible(all_lines[j])
    /\ Len(detected_headers) = 1
    /\ T_EXPERIENCE \in Texts(result)

(***************************************************************************)
(* Claims about repeated classification and the merge                      *)
(***************************************************************************)
HeaderFacts(hs, bsize) ==
    [i \in 1..Len(hs) |->
        [text     |-> hs[i].text,
         size     |-> hs[i].size,
         is_bold  |-> hs[i].is_bold,
         is_upper |-> hs[i].is_upper,
         font     |-> hs[i].font,
         score    |-> C7_Score(hs[i])]]

\* C8 (as claimed): classifying the same Line list twice gives the same
\* headers both times; the first run leaves the input lines as they were.
C8_SecondRunSameHeaders ==
    /\ run \in {"first", "again"} => lines = orig_lines
    /\ (run = "again" /\ pc = "returned") => result = first_result

\* C9 (as claimed): where the merge joins two lines, the headers found are
\* those found for the list holding one line built from the combined text
\* with the same size, bold flag and font: same text, style flags, score.
C9_MergeLaw ==
    (run = "premerged" /\ pc = "returned") =>
        HeaderFacts(result, body_size) = HeaderFacts(first_result, body_size)

(***************************************************************************)
(* Claims about the layout engine                                          *)
(***************************************************************************)
InColumns == lpc \in {"passA", "passB", "passC", "draw"} \/ (lpc = "done" /\ found_split_y.found)

Occurrences(b, bs) == Cardinality({i \in 1..Len(bs) : bs[i] = b})

\* C2: once the columns exist (after the initial split and after each of
\* passes A, B, C), every body block is in exactly one of left_col and
\* right_col, once, and the columns hold nothing else.
C2_ColumnsPartitionBody ==
    InColumns =>
        /\ \A i \in 1..Len(body_blocks) :
              Occurrences(body_blocks[i], left_col)
                + Occurrences(body_blocks[i], right_col) = 1
        /\ \A i \in 1..Len(left_col) : InList(left_col[i], body_blocks)
        /\ \A i \in 1..Len(right_col) : InList(right_col[i], body_blocks)
        /\ Len(left_col) + Len(right_col) = Len(body_blocks)

IsYOrdered(bs) == \A i \in 1..(Len(bs) - 1) : bs[i].bbox[2] <= bs[i + 1].bbox[2]

\* C2 witness: pass C has moved a block of the right column behind the
\* left column's blocks, and both columns hold blocks.
C2_Witness ==
    /\ lpc = "draw"
    /\ right_col # <<>>
    /\ ~IsYOrdered(left_col)
    /\ \E i \in 1..Len(left_col) : left_col[i].bbox[1] * dynamic_center.den >= dynamic_center.num

\* C3 (as claimed): when column assignment has ended, both columns are in
\* ascending order of top y.
C3_ColumnsYOrdered ==
    (lpc \in {"draw", "done"} /\ found_split_y.found) =>
        IsYOrdered(left_col) /\ IsYOrdered(right_col)

C10_IsHeader(b) == \E k \in 1..Len(headings) : headings[k].text = Strip(b.full_text)

C10_Above(h, b) == h.bbox[4] < b.bbox[2]

C10_AtOrRightOfCenter(h) == h.bbox[1] * dynamic_center.den >= dynamic_center.num

\* the governing header as the claim words it: left edges within 10 units
C10_GovernedWithin10(i) ==
    \E j \in 1..(i - 1) :
        /\ C10_IsHeader(right_col[j])
        /\ C10_Above(right_col[j], right_col[i])
        /\ Abs(right_col[j].bbox[1] - right_col[i].bbox[1]) <= 10
        /\ C10_AtOrRightOfCenter(right_col[j])

\* the governing header as amended: the header's left edge is at most 10
\* units right of the block's
C10_GovernedAtMost10Right(i) ==
    \E j \in 1..(i - 1) :
        /\ C10_IsHeader(right_col[j])
        /\ C10_Above(right_col[j], right_col[i])
        /\ right_col[j].bbox[1] <= right_col[i].bbox[1] + 10
        /\ C10_AtOrRightOfCenter(right_col[j])

\* C10 (as claimed): after pass B every non-header block of the right column
\* has, earlier in the right column, a header above it whose left edge is
\* within 10 units of its own and at or right of dynamic_center.
C10_RightBlocksGovernedWithin10 ==
    lpc = "passC" =>
        \A i \in 1..Len(right_col) :
            ~C10_IsHeader(right_col[i]) => C10_GovernedWithin10(i)

\* C10 (amended): after pass B every non-header block of the right column
\* has, earlier in the right column, a header above it whose left edge is at
\* most 10 units right of its own and at or right of dynamic_center; a body
\* block that no header of the right column governs so is in the left column.
C10_RightBlocksGoverned ==
    lpc = "passC" =>
        /\ \A i \in 1..Len(right_col) :
              ~C10_IsHeader(right_col[i]) => C10_GovernedAtMost10Right(i)
        /\ \A k \in 1..Len(body_blocks) :
              (/\ ~C10_IsHeader(body_blocks[k])
               /\ ~\E j \in 1..Len(right_col) :
                     /\ C10_IsHeader(right_col[j])
                     /\ C10_Above(right_col[j], body_blocks[k])
                     /\ right_col[j].bbox[1] <= body_blocks[k].bbox[1] + 10
                     /\ C10_AtOrRightOfCenter(right_col[j]))
              => InList(body_blocks[k], left_col)

\* C10 witness: after pass B one non-header block has stayed in the right
\* column under its header, and one block that lies right of the centre,
\* with no header above it, is in the left column.
C10_Witness ==
    /\ lpc = "passC"
    /\ \E i \in 1..Len(right_col) :
          ~C10_IsHeader(right_col[i]) /\ C10_GovernedAtMost10Right(i)
    /\ \E i \in 1..Len(left_col) :
          /\ C10_AtOrRightOfCenter(left_col[i])
          /\ ~\E j \in 1..Len(right_col) : C10_Above(right_col[j], left_col[i])

\* the pairs of blocks the claim C5 speaks of
C5_Wide(b) == (b.bbox[3] - b.bbox[1]) * 100 >= 5 * page_width

C5_Overlap(b1, b2) == b2.bbox[2] < b1.bbox[4] /\ b2.bbox[4] > b1.bbox[2]

C5_Separated(b1, b2) == b1.bbox[3] < b2.bbox[1] \/ b2.bbox[3] < b1.bbox[1]

C5_Pairs ==
    {p \in (1..Len(text_blocks)) \X (1..Len(text_blocks)) :
        /\ p[1] < p[2]
        /\ C5_Wide(text_blocks[p[1]])
        /\ C5_Wide(text_blocks[p[2]])
        /\ C5_Overlap(text_blocks[p[1]], text_blocks[p[2]])
        /\ C5_Separated(text_blocks[p[1]], text_blocks[p[2]])}

C5_PairTop(p) ==
    IF text_blocks[p[1]].bbox[2] <= text_blocks[p[2]].bbox[2]
    THEN text_blocks[p[1]].bbox[2] ELSE text_blocks[p[2]].bbox[2]

\* C5: once the split search has run over the y-sorted blocks, a split is
\* found exactly when two wide, vertically overlapping, horizontally
\* separated blocks exist, and found_split_y is the least min(top, top) over
\* such pairs.
C5_SplitIsTopmostPair ==
    lpc \notin {"idle", "load", "split", "raised"} /\ text_blocks # <<>> =>
        /\ found_split_y.found <=> C5_Pairs # {}
        /\ found_split_y.found =>
              /\ \E p \in C5_Pairs : C5_PairTop(p) = found_split_y.y
              /\ \A p \in C5_Pairs : C5_PairTop(p) >= found_split_y.y

\* C5 witness: a split is found below the top of the page, and above it a
\* narrow block overlaps a horizontally separated block without counting.
C5_Witness ==
    /\ lpc = "classify"
    /\ found_split_y.found
    /\ found_split_y.y > 0
    /\ \E i, j \in 1..Len(text_blocks) :
          /\ ~C5_Wide(text_blocks[i])
          /\ text_blocks[i].bbox[2] < found_split_y.y
          /\ C5_Overlap(text_blocks[i], text_blocks[j])
          /\ C5_Separated(text_blocks[i], text_blocks[j])

C4_HasHeaderText(b) ==
    \E k \in 1..Len(headings) :
        Contains(StrLower(headings[k].text), StrLower(Strip(b.full_text)))

RECURSIVE C4_Concat(_)
C4_Concat(ss) == IF ss = <<>> THEN <<>> ELSE Head(ss).members \o C4_Concat(Tail(ss))

C4_Partitions(column, ss) ==
    /\ C4_Concat(ss) = column
    /\ \A k \in 1..Len(ss) :
          /\ ss[k].members # <<>>
          /\ k > 1 => C4_HasHeaderText(ss[k].members[1])
          /\ \A m \in 2..Len(ss[k].members) : ~C4_HasHeaderText(ss[k].members[m])

\* C4: the sections drawn for a column are contiguous runs of its list, in
\* list order, that together hold every block once; a section starts at the
\* head of the list and at each block whose text contains a header's text
\* (compared in lower case), and nowhere else.
C4_SectionsPartitionColumn ==
    lpc = "done" /\ (left_col # <<>> \/ right_col # <<>>) =>
        /\ C4_Partitions(left_col, sections_left)
        /\ C4_Partitions(right_col, sections_right)

\* C4 witness: a column of three blocks is drawn as a leading section without
\* a header followed by a header's section, one of them of two blocks.
C4_Witness ==
    /\ lpc = "done"
    /\ Len(left_col) = 3
    /\ Len(sections_left) = 2
    /\ ~C4_HasHeaderText(sections_left[1].members[1])
    /\ \E k \in 1..2 : Len(sections_left[k].members) = 2

(***************************************************************************)
(* Claims about the single-column path, the section rectangles and the     *)
(* average header gap                                                      *)
(***************************************************************************)
C11_Sections == sections_left \o sections_right

\* C11 (as claimed): when generate_layout_debug_pdf is done with a page that
\* has blocks, no column split and no header, its result holds exactly one
\* section, whose members are all the blocks, in order.
C11_OneSectionOfAllBlocks ==
    (/\ lpc = "done"
     /\ text_blocks # <<>>
     /\ ~found_split_y.found
     /\ headings = <<>>)
    => /\ Len(C11_Sections) = 1
       /\ C11_Sections[1].members = text_blocks

C14_Expanded(group) ==
    LET u == PlainUnion(group[1].bbox, Tail(group))
    IN <<u[1] - 1, u[2] - 1, u[3] + 1, u[4] + 1>>

C14_Inside(box, rect) ==
    rect[1] <= box[1] /\ rect[2] <= box[2] /\ box[3] <= rect[3] /\ box[4] <= rect[4]

\* C14 (as claimed): the rectangle of every drawn section, the last and the
\* single-block ones included, is the union of its members' boxes expanded
\* by 1 on each side, and so contains every member's box.
C14_RectIsExpandedUnion ==
    lpc = "done" =>
        \A k \in 1..Len(C11_Sections) :
            /\ C11_Sections[k].rect = C14_Expanded(C11_Sections[k].members)
            /\ \A m \in 1..Len(C11_Sections[k].members) :
                  C14_Inside(C11_Sections[k].members[m].bbox, C11_Sections[k].rect)

C15_HasHeaderText(b) ==
    \E k \in 1..Len(headings) : Contains(headings[k].text, Strip(b.full_text))

\* the header-containing blocks that have a next block, at any position
C15_HeaderIndexes ==
    {i \in 1..(Len(text_blocks) - 1) : C15_HasHeaderText(text_blocks[i])}

RECURSIVE C15_SumOfGaps(_)
C15_SumOfGaps(is) ==
    IF is = {} THEN 0
    ELSE LET i == CHOOSE j \in is : TRUE
         IN (text_blocks[i + 1].bbox[2] - text_blocks[i].bbox[4])
                + C15_SumOfGaps(is \ {i})

\* C15 (as claimed): with at least one text block the analysis never raises,
\* and avg_header_gap is the mean gap between each header-containing block,
\* at whatever position, and its next block, or 0 when there is none.
C15_GapDefinedForEveryHeader ==
    /\ lpc # "raised"
    /\ (lpc \notin {"idle", "load"} /\ text_blocks # <<>>) =>
          IF C15_HeaderIndexes = {}
          THEN avg_header_gap.num = 0
          ELSE avg_header_gap.num * Cardinality(C15_HeaderIndexes)
                  = C15_SumOfGaps(C15_HeaderIndexes) * avg_header_gap.den

(***************************************************************************)
(* Claims about the header-band classification                             *)
(***************************************************************************)
C12_AboveSplit(b) ==
    \/ b.bbox[4] <= found_split_y.y - 5
    \/ (b.bbox[2] < found_split_y.y - 5 /\ b.bbox[4] > found_split_y.y - 5)

C12_EverySpanSmall(b) ==
    \A l \in 1..Len(b.lines) : \A s \in 1..Len(b.lines[l]) :
        b.lines[l][s].size <= body_size + 200

\* the blocks the claim C12 speaks of: above the split, without header text,
\* the block before them (if any) not classified body
C12_DecidedBySize(i) ==
    /\ C12_AboveSplit(text_blocks[i])
    /\ ~C15_HasHeaderText(text_blocks[i])
    /\ i > 1 => ~InList(text_blocks[i - 1], body_blocks)

\* C12 (as claimed): after the classification, a block that is above the
\* split, holds no header text and does not follow a body block is in
\* body_blocks if every span of it has size <= body_size + 2, and is in
\* header_blocks otherwise.
C12_BodyIffEverySpanSmall ==
    (found_split_y.found /\ lpc \in {"columns", "passA", "passB", "passC", "draw", "done"}) =>
        \A i \in 1..Len(text_blocks) :
            C12_DecidedBySize(i) =>
                IF C12_EverySpanSmall(text_blocks[i])
                THEN InList(text_blocks[i], body_blocks)
                ELSE InList(text_blocks[i], header_blocks)

(***************************************************************************)
(* Claims about reconciliation pass C                                      *)
(***************************************************************************)
\* the distance that counts as a gap: avg_header_gap +
\* avg_header_block_height + 5, compared without division
C13_IsGap(d) ==
    d * avg_header_gap.den * avg_header_block_height.den
        >= avg_header_gap.num * avg_header_block_height.den
             + avg_header_block_height.num * avg_header_gap.den
             + 5 * avg_header_gap.den * avg_header_block_height.den

\* the places of right_col where the flag can be set: a gap between two
\* blocks without header text
C13_GapPlaces ==
    {i \in 1..(Len(right_col) - 1) :
        /\ ~C15_HasHeaderText(right_col[i])
        /\ ~C15_HasHeaderText(right_col[i + 1])
        /\ C13_IsGap(right_col[i + 1].bbox[2] - right_col[i].bbox[4])}

C13_FirstGap == CHOOSE i \in C13_GapPlaces : \A j \in C13_GapPlaces : i <= j

C13_PassCRuns == avg_header_block_height.num > 0 /\ avg_header_gap.num > 0

\* C13 (as claimed): in pass C the gap flag is set at most once during the
\* scan of right_col, and once it is set every block after the flagged gap
\* is moved, in order, to the end of left_col.
C13_GapFlagLatches ==
    [][(lpc = "passC" /\ C13_PassCRuns) =>
          /\ PassCScan(right_col, headings, avg_header_block_height,
                       avg_header_gap).times_set <= 1
          /\ IF C13_GapPlaces = {}
             THEN right_col' = right_col /\ left_col' = left_col
             ELSE /\ right_col' = SubSeq(right_col, 1, C13_FirstGap)
                  /\ left_col' = left_col
                        \o SubSeq(right_col, C13_FirstGap + 1, Len(right_col))
      ]_vars
====
